---- MODULE Spec2Model ----
(***************************************************************************)
(* Book API (Express + Mongoose) of week6-bepp-option-b.                   *)
(*                                                                         *)
(* The model follows the application as README.md builds it (Part 2,       *)
(* iterations 6 and 7): the user controller (signupUser, loginUser,        *)
(* generateToken), the requireAuth middleware, the book controllers and    *)
(* the book router with its fixed layer order.  The starter router and     *)
(* starter controllers (routes/bookRouter.js, controllers/                 *)
(* bookControllers.js) are modelled next to them.                          *)
(*                                                                         *)
(* Abstractions.  Object ids are positive integers handed out in order; a  *)
(* string that is no ObjectId is the id 0.  A JSON object is a function    *)
(* from its present keys to values, so an absent key is a key outside the  *)
(* DOMAIN and the object spread {...a, k} is (k :> v) @@ a.  Time is       *)
(* counted in days.  A JWT is the record of what it carries: the _id of    *)
(* its payload, the key that signed it and its expiry.  A bcrypt digest is *)
(* the record of its salt and of the text it was made from.  Every store   *)
(* call takes an input saying whether the store answers or throws.         *)
(***************************************************************************)
EXTENDS Integers, Sequences, FiniteSets, TLC

\* ---------------------------------------------------------------- bounds
MaxUsers == 2
MaxBooks == 1
MaxCatalogBooks == 2
MaxListBooks == 3
MaxListTime == 2
MaxTime == 1
MaxSessionTime == 3

\* ------------------------------------------------------ program constants
\* expiresIn: "3d"
TokenDays == 3
\* process.env.SECRET
SECRET == "f9d1e693"

\* ------------------------------------------------------------ input sets
Keys == {SECRET, "another-key"}
Emails == {"john@example.com", "jane@example.com"}
Passwords == {"secret123", "wrongpassword"}
Salts == {"salt-1"}
Procs == {"req-1", "req-2"}

VARIABLES
  users,       \* the User collection: records [_id, email, password]
  books,       \* the Book collection: book documents
  nextBookId,  \* the next _id the Book collection hands out
  now,         \* the clock, in days
  pending,     \* per request slot: a signupUser call between findOne and create
  saved,       \* the token a client kept from a signup or login response
  last,        \* the last response sent
  flight       \* per request slot: a book request between the gate and its store call

vars == <<users, books, nextBookId, now, pending, saved, last, flight>>

\* ------------------------------------------------------------ JSON values
EmptyObj == << >>

Has(obj, k) == k \in DOMAIN obj

\* !x for a destructured body field: undefined or the empty string
Falsy(obj, k) == ~Has(obj, k) \/ obj[k] = ""

\* ------------------------------------------------------- tokens, headers
Jwt(id, key, exp) == [kind |-> "jwt", _id |-> id, key |-> key, exp |-> exp, text |-> ""]

Word(w) == [kind |-> "word", _id |-> 0, key |-> "", exp |-> 0, text |-> w]

Undefined == [kind |-> "undefined", _id |-> 0, key |-> "", exp |-> 0, text |-> ""]

NoHeader == [present |-> FALSE, segs |-> << >>]

RawHeader(segs) == [present |-> TRUE, segs |-> segs]

Bearer(token) == RawHeader(<<Word("Bearer"), token>>)

\* authorization.split(" "): the header's space-separated segments
Split(header) == header.segs

\* JavaScript's array[i], 0-based: undefined past the end
At(segs, i) == IF i + 1 <= Len(segs) THEN segs[i + 1] ELSE Undefined

\* !authorization: no header, or the empty string
FalsyHeader(header) == ~header.present \/ header.segs = <<Word("")>>

\* faulty variant: expiresIn: "1d"
generateTokenOneDay(_id, t) == Jwt(_id, SECRET, t + 1)

\* faulty variant: the payload carries no _id
generateTokenNoId(_id, t) == Jwt(0, SECRET, t + TokenDays)

\* jwt.sign({ _id }, process.env.SECRET, { expiresIn: "3d" })
generateToken(_id, t) == Jwt(_id, SECRET, t + TokenDays)

\* faulty variant: the expiry is not checked
jwtVerifyIgnoringExpiry(token, secret, t) ==
  IF token.kind = "jwt" /\ token.key = secret
  THEN [ok |-> TRUE, _id |-> token._id]
  ELSE [ok |-> FALSE, _id |-> 0]

\* jwt.verify(token, secret) at time t: the payload, or a throw
jwtVerify(token, secret, t) ==
  IF token.kind = "jwt" /\ token.key = secret /\ t < token.exp
  THEN [ok |-> TRUE, _id |-> token._id]
  ELSE [ok |-> FALSE, _id |-> 0]

\* ---------------------------------------------------------------- bcrypt
\* faulty variant: the password is stored as submitted
bcryptHashPlain(plain, salt) == [kind |-> "plain", salt |-> "", text |-> plain]

\* faulty variant: any password matches
bcryptCompareAny(plain, digest) == digest.kind = "bcrypt"

\* a stored password: what it is (a bcrypt digest or the text itself), its salt,
\* and the text it was made from
bcryptHash(plain, salt) == [kind |-> "bcrypt", salt |-> salt, text |-> plain]

bcryptCompare(plain, digest) == digest.kind = "bcrypt" /\ digest.text = plain

\* ------------------------------------------------------------- responses
NoToken == Undefined

Resp(op, status, msg) ==
  [op |-> op, status |-> status, msg |-> msg, email |-> "", token |-> NoToken,
   body |-> << >>, handler |-> "none", user |-> 0]

NoResp == Resp("none", 0, "")

\* ------------------------------------------------------- User collection
UserEmails == {u.email : u \in users}

UserIds == {u._id : u \in users}

\* faulty variant: the query names a field no user document has
UserByEmailWrongField(email) == {u \in users : FALSE}

\* User.findOne({ email })
UserByEmail(email) == {u \in users : u.email = email}

\* User.findOne({ _id }).select("_id"): the _id, or 0 for null
FindUserId(_id) == IF _id \in UserIds THEN _id ELSE 0

Idle == [stage |-> "idle", email |-> "", password |-> ""]

NoSaved == [token |-> Undefined, for |-> 0, iat |-> 0]

\* the fields of the signup JSON shape
SignupFields ==
  {"name", "email", "password", "phone_number", "gender", "date_of_birth",
   "membership_status"}

\* faulty variant: the test leaves membership_status out
CheckedFieldsButStatus ==
  {"name", "email", "password", "phone_number", "gender", "date_of_birth"}

\* the fields signupUser tests with !field before it does anything else
CheckedFields ==
  {"name", "email", "password", "phone_number", "gender", "date_of_birth",
   "membership_status"}

\* ------------------------------------------------------------ signupUser
\* signupUser up to and including User.findOne({ email })
signupUser(p, body, ok) ==
  /\ pending[p].stage = "idle"
  /\ IF \E k \in CheckedFields : Falsy(body, k)
     THEN /\ last' = Resp("POST /api/users/signup", 400, "Please add all fields")
          /\ UNCHANGED pending
     ELSE IF ~ok
     THEN /\ last' = Resp("POST /api/users/signup", 400, "store error")
          /\ UNCHANGED pending
     ELSE IF UserByEmail(body.email) # {}
     THEN /\ last' = Resp("POST /api/users/signup", 400, "User already exists")
          /\ UNCHANGED pending
     ELSE /\ pending' = [pending EXCEPT ![p] =
                 [stage |-> "create", email |-> body.email, password |-> body.password]]
          /\ UNCHANGED last
  /\ UNCHANGED <<users, books, nextBookId, now, saved, flight>>

\* faulty variant: the schema's email path is not unique: true
UserCreateNoIndex(doc) == [ok |-> TRUE, users |-> users \cup {doc}, msg |-> ""]

\* User.create under the unique index on email: the new collection, or a throw
UserCreate(doc) ==
  IF doc.email \in UserEmails
  THEN [ok |-> FALSE, users |-> users, msg |-> "E11000 duplicate key error"]
  ELSE [ok |-> TRUE, users |-> users \cup {doc}, msg |-> ""]

\* signupUser from bcrypt.genSalt to the response
signupUserCreate(p, salt, ok, keep) ==
  /\ pending[p].stage = "create"
  /\ LET email == pending[p].email
         hashedPassword == bcryptHash(pending[p].password, salt)
         _id == Cardinality(users) + 1
         created == UserCreate([_id |-> _id, email |-> email, password |-> hashedPassword])
         token == generateToken(_id, now)
     IN IF ~ok
        THEN /\ last' = Resp("POST /api/users/signup", 400, "store error")
             /\ UNCHANGED <<users, saved>>
        ELSE IF ~created.ok
        THEN /\ last' = Resp("POST /api/users/signup", 400, created.msg)
             /\ UNCHANGED <<users, saved>>
        ELSE /\ Cardinality(users) < MaxUsers
             /\ users' = created.users
             /\ last' = [Resp("POST /api/users/signup", 201, "") EXCEPT !.email = email, !.token = token]
             /\ saved' = IF keep THEN [token |-> token, for |-> _id, iat |-> now] ELSE saved
  /\ pending' = [pending EXCEPT ![p] = Idle]
  /\ UNCHANGED <<books, nextBookId, now, flight>>

\* ------------------------------------------------------------- loginUser
loginUser(email, password, ok, keep) ==
  /\ LET found == UserByEmail(email)
     IN IF ~ok
        THEN /\ last' = Resp("POST /api/users/login", 400, "store error")
             /\ UNCHANGED saved
        ELSE IF \E user \in found : bcryptCompare(password, user.password)
        THEN LET user == CHOOSE u \in found : TRUE
                 token == generateToken(user._id, now)
             IN /\ last' = [Resp("POST /api/users/login", 200, "") EXCEPT !.email = email, !.token = token]
                /\ saved' = IF keep THEN [token |-> token, for |-> user._id, iat |-> now]
                            ELSE saved
        ELSE /\ last' = Resp("POST /api/users/login", 400, "Invalid credentials")
             /\ UNCHANGED saved
  /\ UNCHANGED <<users, books, nextBookId, now, pending, flight>>

\* ------------------------------------------------------- Book collection
\* faulty variant: the id is not tested
isValidAny(bookId) == TRUE

\* mongoose.Types.ObjectId.isValid(bookId)
isValid(bookId) == bookId > 0

\* faulty variant: the filter names no field of the document, so any book matches
BookByIdAny(bookId) == books

\* Book.findById(bookId), Book.findOne({ _id: bookId })
BookById(bookId) == {b \in books : b._id = bookId}

\* bookSchema: the paths marked required: true
RequiredPaths == {"title", "author", "isbn", "publisher", "genre", "user_id"}

\* the document passes bookSchema's validation
SchemaValid(doc) ==
  /\ \A k \in RequiredPaths : Has(doc, k)
  /\ Has(doc, "availability")
  /\ Has(doc.availability, "isAvailable")

\* faulty variant: sort({ createdAt: 1 })
IsListingAscending(s) ==
  /\ {s[i] : i \in 1..Len(s)} = books
  /\ Len(s) = Cardinality(books)
  /\ \A i \in 1..Len(s) : \A j \in 1..Len(s) : i < j => s[i].createdAt <= s[j].createdAt

\* Book.find({}).sort({ createdAt: -1 }): a listing, newest first
IsListing(s) ==
  /\ {s[i] : i \in 1..Len(s)} = books
  /\ Len(s) = Cardinality(books)
  /\ \A i \in 1..Len(s) : \A j \in 1..Len(s) : i < j => s[i].createdAt >= s[j].createdAt

Listings == {s \in UNION {[1..n -> books] : n \in {Cardinality(books)}} : IsListing(s)}

\* ----------------------------------------------------------- requireAuth
Respond(status, msg) == [kind |-> "respond", status |-> status, msg |-> msg, user |-> 0]

\* faulty variant: the gate answers 401 and calls next() as well
ForwardAndRespond(user) ==
  [kind |-> "next", status |-> 401, msg |-> "Request is not authorized", user |-> user]

Forward(user) == [kind |-> "next", status |-> 0, msg |-> "", user |-> user]

\* requireAuth(req, res, next); gateOk: User.findOne answers rather than throws
requireAuth(req, gateOk) ==
  IF FalsyHeader(req.authorization)
  THEN Respond(401, "Authorization token required")
  ELSE LET token == At(Split(req.authorization), 1)
           verified == jwtVerify(token, SECRET, now)
       IN IF ~verified.ok \/ ~gateOk
          THEN Respond(401, "Request is not authorized")
          ELSE Forward(FindUserId(verified._id))

\* ---------------------------------------------------------------- router
Route(method, path, handler) ==
  [kind |-> "route", method |-> method, path |-> path, handler |-> handler]

Use(handler) == [kind |-> "use", method |-> "", path |-> "", handler |-> handler]

\* faulty variant: the delete route is not registered
starterRouterNoDelete ==
  <<Route("GET", "/", "getAllBooks"),
    Route("POST", "/", "createBook"),
    Route("GET", "/:bookId", "getBookById"),
    Route("PUT", "/:bookId", "updateBook")>>

\* routes/bookRouter.js as the starter ships it
starterRouter ==
  <<Route("GET", "/", "getAllBooks"),
    Route("POST", "/", "createBook"),
    Route("GET", "/:bookId", "getBookById"),
    Route("PUT", "/:bookId", "updateBook"),
    Route("DELETE", "/:bookId", "deleteBook")>>

\* faulty variant: router.use(requireAuth) comes after the routes
bookRouterGateLast ==
  <<Route("GET", "/", "getAllBooks"),
    Route("GET", "/:bookId", "getBookById"),
    Route("POST", "/", "createBook"),
    Route("PUT", "/:bookId", "updateBook"),
    Route("DELETE", "/:bookId", "deleteBook"),
    Use("requireAuth")>>

\* faulty variant: router.use(requireAuth) comes before the public routes
bookRouterGateFirst ==
  <<Use("requireAuth"),
    Route("GET", "/", "getAllBooks"),
    Route("GET", "/:bookId", "getBookById"),
    Route("POST", "/", "createBook"),
    Route("PUT", "/:bookId", "updateBook"),
    Route("DELETE", "/:bookId", "deleteBook")>>

\* routes/bookRouter.js after step 7d
bookRouter ==
  <<Route("GET", "/", "getAllBooks"),
    Route("GET", "/:bookId", "getBookById"),
    Use("requireAuth"),
    Route("POST", "/", "createBook"),
    Route("PUT", "/:bookId", "updateBook"),
    Route("DELETE", "/:bookId", "deleteBook")>>

\* the routes the router registers, each with its controller
Routes ==
  {<<bookRouter[i].method, bookRouter[i].path, bookRouter[i].handler>> :
     i \in {j \in 1..Len(bookRouter) : bookRouter[j].kind = "route"}}

\* step 7d: the routes that need a logged-in user
ProtectedRoutes == {r \in Routes : r[1] \in {"POST", "PUT", "DELETE"}}

PublicRoutes == Routes \ ProtectedRoutes

Req(method, path, bookId, authorization, body) ==
  [method |-> method, path |-> path, bookId |-> bookId,
   authorization |-> authorization, body |-> body]

\* a request slot with no book request in it
NoFlight ==
  [stage |-> "idle", req |-> Req("", "", 0, NoHeader, EmptyObj), handler |-> "none",
   user |-> 0, stored |-> FALSE, status |-> 0]

\* Express walks the router's layers in order from layer i; user is req.user so far
RECURSIVE Dispatch(_, _, _, _, _)
Dispatch(router, i, req, user, gateOk) ==
  IF i > Len(router)
  THEN [kind |-> "unknownEndpoint", status |-> 404, msg |-> "unknown endpoint",
        handler |-> "none", user |-> user]
  ELSE LET layer == router[i]
       IN IF layer.kind = "use"
          THEN LET gate == requireAuth(req, gateOk)
               IN IF gate.kind = "respond"
                  THEN [kind |-> "respond", status |-> gate.status, msg |-> gate.msg,
                        handler |-> "none", user |-> 0]
                  ELSE Dispatch(router, i + 1, req, gate.user, gateOk)
          ELSE IF layer.method = req.method /\ layer.path = req.path
          THEN [kind |-> "handler", status |-> 0, msg |-> "",
                handler |-> layer.handler, user |-> user]
          ELSE Dispatch(router, i + 1, req, user, gateOk)

\* app.use("/api/books", bookRouter): the route as the client names it
RouteName(req) == req.method \o " /api/books" \o (IF req.path = "/" THEN "" ELSE req.path)

\* --------------------------------------------------------- book handlers
Sent(req, handler, user, status, msg, body) ==
  [Resp(RouteName(req), status, msg) EXCEPT !.handler = handler, !.user = user, !.body = body]

\* faulty variant: no try/catch around Book.find: the rejection leaves the handler
\* and the request gets no response (status 0)
getAllBooksUncaught(req, user, ok) ==
  /\ IF ok
     THEN \E listing \in Listings :
            last' = Sent(req, "getAllBooks", user, 200, "", listing)
     ELSE last' = Sent(req, "getAllBooks", user, 0, "", << >>)
  /\ UNCHANGED <<books, nextBookId>>

\* getAllBooks
getAllBooks(req, user, ok) ==
  /\ IF ok
     THEN \E listing \in Listings :
            last' = Sent(req, "getAllBooks", user, 200, "", listing)
     ELSE last' = Sent(req, "getAllBooks", user, 500, "Failed to retrieve books", << >>)
  /\ UNCHANGED <<books, nextBookId>>

\* getBookById
getBookById(req, user, ok) ==
  /\ IF ~isValid(req.bookId)
     THEN last' = Sent(req, "getBookById", user, 400, "Invalid book ID", << >>)
     ELSE IF ~ok
     THEN last' = Sent(req, "getBookById", user, 500, "Failed to retrieve book", << >>)
     ELSE IF BookById(req.bookId) # {}
     THEN last' = Sent(req, "getBookById", user, 200, "", <<CHOOSE b \in BookById(req.bookId) : TRUE>>)
     ELSE last' = Sent(req, "getBookById", user, 404, "Book not found", << >>)
  /\ UNCHANGED <<books, nextBookId>>

\* faulty variant: { user_id, ...req.body }: the body's user_id wins
NewBookDocBodyWins(body, user_id) == body @@ ("user_id" :> user_id)

\* { ...req.body, user_id }
NewBookDoc(body, user_id) == ("user_id" :> user_id) @@ body

\* createBook (step 7c)
createBook(req, user, ok) ==
  IF user = 0
  THEN \* req.user is null: req.user._id throws inside the try
       /\ last' = Sent(req, "createBook", user, 500, "Server Error", << >>)
       /\ UNCHANGED <<books, nextBookId>>
  ELSE LET doc == NewBookDoc(req.body, user)
           newBook == doc @@ [_id |-> nextBookId, createdAt |-> now]
       IN IF ~SchemaValid(doc) \/ ~ok
          THEN /\ last' = Sent(req, "createBook", user, 500, "Server Error", << >>)
               /\ UNCHANGED <<books, nextBookId>>
          ELSE /\ books' = books \cup {newBook}
               /\ nextBookId' = nextBookId + 1
               /\ last' = Sent(req, "createBook", user, 201, "", <<newBook>>)

\* faulty variant: the stored values win over the payload's
UpdatedDocOldWins(old, body) == old @@ body

\* faulty variant: the payload replaces the document, which keeps its _id and
\* createdAt only
UpdatedDocReplaced(old, body) ==
  body @@ [_id |-> old._id, createdAt |-> old.createdAt]

\* the document after findOneAndUpdate(filter, { ...req.body }): the update has no
\* operator, so Mongoose applies it as $set of each top-level key of the payload
UpdatedDoc(old, body) == body @@ old

\* faulty variant: findOneAndUpdate with upsert: true inserts the document when
\* none has the _id
updateBookUpsert(req, user, ok) ==
  IF ~isValid(req.bookId)
  THEN /\ last' = Sent(req, "updateBook", user, 400, "Invalid book ID", << >>)
       /\ UNCHANGED <<books, nextBookId>>
  ELSE IF ~ok
  THEN /\ last' = Sent(req, "updateBook", user, 500, "Failed to update book", << >>)
       /\ UNCHANGED <<books, nextBookId>>
  ELSE LET old == IF BookById(req.bookId) # {}
                  THEN CHOOSE b \in BookById(req.bookId) : TRUE
                  ELSE [_id |-> req.bookId, createdAt |-> now]
           updatedBook == UpdatedDoc(old, req.body)
       IN /\ books' = (books \ {old}) \cup {updatedBook}
          /\ last' = Sent(req, "updateBook", user, 200, "", <<updatedBook>>)
          /\ UNCHANGED nextBookId

\* updateBook
updateBook(req, user, ok) ==
  IF ~isValid(req.bookId)
  THEN /\ last' = Sent(req, "updateBook", user, 400, "Invalid book ID", << >>)
       /\ UNCHANGED <<books, nextBookId>>
  ELSE IF ~ok
  THEN /\ last' = Sent(req, "updateBook", user, 500, "Failed to update book", << >>)
       /\ UNCHANGED <<books, nextBookId>>
  ELSE IF BookById(req.bookId) # {}
  THEN LET old == CHOOSE b \in BookById(req.bookId) : TRUE
           updatedBook == UpdatedDoc(old, req.body)
       IN /\ books' = (books \ {old}) \cup {updatedBook}
          /\ last' = Sent(req, "updateBook", user, 200, "", <<updatedBook>>)
          /\ UNCHANGED nextBookId
  ELSE /\ last' = Sent(req, "updateBook", user, 404, "Book not found", << >>)
       /\ UNCHANGED <<books, nextBookId>>

\* faulty variant: the document is found but not deleted
BooksWithoutDeleting(bookId) == books

\* the collection after Book.findOneAndDelete({ _id: bookId })
BooksWithout(bookId) == books \ BookById(bookId)

\* faulty variant: the filter is { _id: bookId, user_id: req.user._id }, so only the
\* owner's delete finds the book
deleteBookOwnerOnly(req, user, ok) ==
  IF ~isValid(req.bookId)
  THEN /\ last' = Sent(req, "deleteBook", user, 400, "Invalid book ID", << >>)
       /\ UNCHANGED <<books, nextBookId>>
  ELSE IF ~ok
  THEN /\ last' = Sent(req, "deleteBook", user, 500, "Failed to delete book", << >>)
       /\ UNCHANGED <<books, nextBookId>>
  ELSE IF \E b \in BookById(req.bookId) : b.user_id = user
  THEN /\ books' = BooksWithout(req.bookId)
       /\ last' = Sent(req, "deleteBook", user, 204, "", << >>)
       /\ UNCHANGED nextBookId
  ELSE /\ last' = Sent(req, "deleteBook", user, 404, "Book not found", << >>)
       /\ UNCHANGED <<books, nextBookId>>

\* deleteBook
deleteBook(req, user, ok) ==
  IF ~isValid(req.bookId)
  THEN /\ last' = Sent(req, "deleteBook", user, 400, "Invalid book ID", << >>)
       /\ UNCHANGED <<books, nextBookId>>
  ELSE IF ~ok
  THEN /\ last' = Sent(req, "deleteBook", user, 500, "Failed to delete book", << >>)
       /\ UNCHANGED <<books, nextBookId>>
  ELSE IF BookById(req.bookId) # {}
  THEN /\ books' = BooksWithout(req.bookId)
       /\ last' = Sent(req, "deleteBook", user, 204, "", << >>)
       /\ UNCHANGED nextBookId
  ELSE /\ last' = Sent(req, "deleteBook", user, 404, "Book not found", << >>)
       /\ UNCHANGED <<books, nextBookId>>

\* controllers/bookControllers.js as the starter ships it: res.send(name)
starterController(req, handler) ==
  /\ last' = Sent(req, handler, 0, 200, handler, << >>)
  /\ UNCHANGED <<books, nextBookId>>

\* the controller a route names, after step 7c
Invoke(handler, req, user, ok) ==
  CASE handler = "getAllBooks" -> getAllBooks(req, user, ok)
    [] handler = "getBookById" -> getBookById(req, user, ok)
    [] handler = "createBook" -> createBook(req, user, ok)
    [] handler = "updateBook" -> updateBook(req, user, ok)
    [] handler = "deleteBook" -> deleteBook(req, user, ok)

\* app.use("/api/books", bookRouter): one request through the router
Handle(router, req, gateOk, ok) ==
  /\ LET d == Dispatch(router, 1, req, 0, gateOk)
     IN IF d.kind = "handler"
        THEN Invoke(d.handler, req, d.user, ok)
        ELSE /\ last' = Sent(req, "none", 0, d.status, d.msg, << >>)
             /\ UNCHANGED <<books, nextBookId>>
  /\ UNCHANGED <<users, now, pending, saved, flight>>

\* ----------------------------------------------------------------- clock
Tick(limit) ==
  /\ now < limit
  /\ now' = now + 1
  /\ UNCHANGED <<users, books, nextBookId, pending, saved, last, flight>>

\* ---------------------------------------------------------------- inputs
FullBody(email, password) ==
  [name |-> "John Doe", email |-> email, password |-> password,
   phone_number |-> "555-123-4567", gender |-> "Male",
   date_of_birth |-> "1990-01-15", membership_status |-> "Active"]

Without(obj, k) == [x \in DOMAIN obj \ {k} |-> obj[x]]

\* signup calls: complete bodies, bodies with a field absent or empty, and the
\* store failing under a complete body
SignupCalls ==
  {<<FullBody(e, "secret123"), TRUE>> : e \in Emails}
    \cup {<<Without(FullBody("john@example.com", "secret123"), k), TRUE>> : k \in SignupFields}
    \cup {<<[FullBody("john@example.com", "secret123") EXCEPT ![k] = ""], TRUE>> : k \in SignupFields}
    \cup {<<EmptyObj, TRUE>>, <<FullBody("john@example.com", "secret123"), FALSE>>}

Gatsby ==
  [title |-> "The Great Gatsby", author |-> "F. Scott Fitzgerald",
   isbn |-> "978-0743273565", publisher |-> "Scribner", genre |-> "Fiction",
   availability |-> [isAvailable |-> TRUE, borrower |-> ""]]

\* create payloads: complete, complete with an owner of the client's choosing,
\* one required field missing, empty
CreatePayloads ==
  {Gatsby, Without(Gatsby, "title"), EmptyObj}
    \cup {("user_id" :> u) @@ Gatsby : u \in 1..MaxUsers}

UpdatePayloads == {[genre |-> "Classic Fiction"]}

Payloads(method) ==
  IF method = "POST" THEN CreatePayloads
  ELSE IF method = "PUT" THEN UpdatePayloads
  ELSE {EmptyObj}

\* an expiry no clock value of the model reaches
FarExp == MaxTime + MaxSessionTime + TokenDays + 1

\* tokens a client can put in the header: garbage, a token signed with another
\* key, an expired one, and a well-signed one for each user id
TokenInputs ==
  {Word("garbage"), Jwt(1, "another-key", FarExp), Jwt(1, SECRET, 0)}
    \cup {Jwt(u, SECRET, FarExp) : u \in 1..MaxUsers}

HeaderInputs ==
  {NoHeader, RawHeader(<<Word("")>>), RawHeader(<<Jwt(1, SECRET, FarExp)>>)}
    \cup {Bearer(t) : t \in TokenInputs}

\* the calls of one route: every header on one request, every id and payload under
\* a well-signed token, and the store failing under either store call
CallsOn ==
  [r \in Routes |->
     LET method == r[1]
         path == r[2]
     IN {<<Req(method, path, 1, h, Gatsby), TRUE, TRUE>> : h \in HeaderInputs}
          \cup {<<Req(method, path, id, Bearer(Jwt(1, SECRET, FarExp)), body), TRUE, TRUE>> :
                  id \in (IF path = "/" THEN {1} ELSE 0..MaxBooks), body \in Payloads(method)}
          \cup {<<Req(method, path, 1, Bearer(Jwt(1, SECRET, FarExp)), Gatsby), ~o, o>> :
                  o \in BOOLEAN}]

Calls(method, path) == UNION {CallsOn[r] : r \in {x \in Routes : x[1] = method /\ x[2] = path}}

\* the calls a client makes with the token it kept
SessionCalls(method, path) ==
  {<<Req(method, path, 1, Bearer(saved.token), Gatsby), g, TRUE>> : g \in BOOLEAN}

Request(calls) ==
  \E c \in calls : Handle(bookRouter, c[1], c[2], c[3])

\* the workload creates no more than limit books
Creates(limit) == nextBookId' <= limit + 1

GetBooks == Request(Calls("GET", "/"))

GetBook == Request(Calls("GET", "/:bookId"))

PostBook == Request(Calls("POST", "/")) /\ Creates(MaxBooks)

PutBook == Request(Calls("PUT", "/:bookId"))

DeleteBook == Request(Calls("DELETE", "/:bookId"))

Signup(procs) ==
  \E p \in procs, c \in SignupCalls : signupUser(p, c[1], c[2])

SignupCreate(procs, keeps) ==
  \E p \in procs, salt \in Salts, ok \in BOOLEAN, keep \in keeps :
    signupUserCreate(p, salt, ok, keep)

\* login calls: each email with each password, and the store failing
LoginCalls ==
  {<<e, pw, TRUE>> : e \in Emails, pw \in Passwords}
    \cup {<<"john@example.com", "secret123", FALSE>>}

Login(keeps) ==
  \E c \in LoginCalls, keep \in keeps : loginUser(c[1], c[2], c[3], keep)

Init ==
  /\ users = {}
  /\ books = {}
  /\ nextBookId = 1
  /\ now = 0
  /\ pending = [p \in Procs |-> Idle]
  /\ saved = NoSaved
  /\ last = NoResp
  /\ flight = [p \in Procs |-> NoFlight]

\* the whole application, one request in flight at a time; the clock stands, so a
\* token is expired or not by the exp it carries
Next ==
  \/ Signup({"req-1"})
  \/ SignupCreate({"req-1"}, {FALSE})
  \/ Login({FALSE})
  \/ GetBooks
  \/ GetBook
  \/ PostBook
  \/ PutBook
  \/ DeleteBook

Spec == Init /\ [][Next]_vars

\* the authentication service under two signup requests in flight
NextSignup ==
  \/ Signup(Procs)
  \/ SignupCreate(Procs, {FALSE})
  \/ Login({FALSE})
  \/ Tick(MaxTime)

SpecSignup == Init /\ [][NextSignup]_vars

\* a client that keeps the token of a signup or login response and sends it later
SessionRequest ==
  /\ saved # NoSaved
  /\ \E r \in Routes : Request(SessionCalls(r[1], r[2]))
  /\ Creates(MaxBooks)

NextSession ==
  \/ Signup({"req-1"})
  \/ SignupCreate({"req-1"}, BOOLEAN)
  \/ Login(BOOLEAN)
  \/ SessionRequest
  \/ Tick(MaxSessionTime)

SpecSession == Init /\ [][NextSession]_vars

\* ------------------------------------------------------- catalog workload
\* the token of the first User to sign up
FirstToken == Jwt(1, SECRET, FarExp)

\* update payloads: one top-level field, an availability object that gives
\* isAvailable only, and a user_id
CatalogUpdates ==
  {[genre |-> "Classic Fiction"], [availability |-> [isAvailable |-> FALSE]],
   [user_id |-> 2]}

CatalogPayloads(method) ==
  IF method = "POST" THEN {Gatsby, Without(Gatsby, "title")}
  ELSE IF method = "PUT" THEN CatalogUpdates
  ELSE {EmptyObj}

\* the ids a client sends: no ObjectId (0), and ObjectIds up to one the store
\* never hands out
CatalogIds(path) == IF path = "/" THEN {1} ELSE 0..(MaxCatalogBooks + 1)

\* the calls of one route by a logged-in client: every id under every payload, and
\* the store failing under an id that is no ObjectId and under one that is
CatalogCalls ==
  [r \in Routes |->
     {<<Req(r[1], r[2], id, Bearer(FirstToken), body), TRUE, TRUE>> :
        id \in CatalogIds(r[2]), body \in CatalogPayloads(r[1])}
       \cup {<<Req(r[1], r[2], id, Bearer(FirstToken), Gatsby), TRUE, FALSE>> :
               id \in CatalogIds(r[2]) \cap {0, 1}}]

CatalogRequest(method, path) ==
  \E r \in {x \in Routes : x[1] = method /\ x[2] = path} : Request(CatalogCalls[r])

ListBooks == CatalogRequest("GET", "/")

ReadBook == CatalogRequest("GET", "/:bookId")

AddBook == CatalogRequest("POST", "/") /\ Creates(MaxCatalogBooks)

ChangeBook == CatalogRequest("PUT", "/:bookId")

RemoveBook == CatalogRequest("DELETE", "/:bookId")

\* the first signup: a complete body, the store answering
SignupFirst == signupUser("req-1", FullBody("john@example.com", "secret123"), TRUE)

\* the catalog under one logged-in client
NextCatalog ==
  \/ SignupFirst
  \/ SignupCreate({"req-1"}, {FALSE})
  \/ ListBooks
  \/ ReadBook
  \/ AddBook
  \/ ChangeBook
  \/ RemoveBook

SpecCatalog == Init /\ [][NextCatalog]_vars

\* ---------------------------------------------------------- list workload
\* creates by a logged-in client, and lists with the store answering or throwing
ListCalls ==
  [r \in Routes |->
     IF r[1] = "POST"
     THEN {<<Req(r[1], r[2], 1, Bearer(FirstToken), Gatsby), TRUE, TRUE>>}
     ELSE {<<Req(r[1], r[2], 1, NoHeader, EmptyObj), TRUE, o>> : o \in BOOLEAN}]

ListRequest(method, path) ==
  \E r \in {x \in Routes : x[1] = method /\ x[2] = path} : Request(ListCalls[r])

CreateInSequence == ListRequest("POST", "/") /\ Creates(MaxListBooks)

ListAll == ListRequest("GET", "/")

\* books created one after the other as time passes, and listed
NextList ==
  \/ SignupFirst
  \/ SignupCreate({"req-1"}, {FALSE})
  \/ CreateInSequence
  \/ ListAll
  \/ Tick(MaxListTime)

SpecList == Init /\ [][NextList]_vars

\* ------------------------------------------------------- starter workload
\* the starter's app.js: one request through the starter's router and controllers
HandleStarter(req) ==
  /\ LET d == Dispatch(starterRouter, 1, req, 0, TRUE)
     IN IF d.kind = "handler"
        THEN starterController(req, d.handler)
        ELSE /\ last' = Sent(req, "none", 0, d.status, d.msg, << >>)
             /\ UNCHANGED <<books, nextBookId>>
  /\ UNCHANGED <<users, now, pending, saved, flight>>

\* books the database the starter connects to may hold
StarterBooks == {Gatsby @@ [_id |-> i, createdAt |-> 0] : i \in 1..(MaxBooks + 1)}

\* the header of a client that holds saved.token, or none
SavedHeader == IF saved = NoSaved THEN NoHeader ELSE Bearer(saved.token)

\* the calls of one route: every id and body, with and without the header
StarterCalls(method, path) ==
  {Req(method, path, id, h, body) :
     id \in 0..(MaxBooks + 1), h \in {NoHeader, SavedHeader}, body \in {EmptyObj, Gatsby}}

StarterRequest ==
  \E r \in Routes : \E req \in StarterCalls(r[1], r[2]) : HandleStarter(req)

\* the starter comes up against any database content, and the client holds any
\* token or none
InitStarter ==
  /\ users = {}
  /\ books \in SUBSET StarterBooks
  /\ nextBookId = MaxBooks + 2
  /\ now = 0
  /\ pending = [p \in Procs |-> Idle]
  /\ saved \in {NoSaved} \cup {[token |-> t, for |-> 0, iat |-> 0] : t \in TokenInputs}
  /\ last = NoResp
  /\ flight = [p \in Procs |-> NoFlight]

NextStarter == StarterRequest

SpecStarter == InitStarter /\ [][NextStarter]_vars

\* ---------------------------------------------------------- race workload
\* a book request up to its controller's store call: the router's layers, the gate's
\* User.findOne among them; stored: a book has the request's id at that moment
Arrive(p, req, gateOk) ==
  /\ flight[p].stage = "idle"
  /\ LET d == Dispatch(bookRouter, 1, req, 0, gateOk)
     IN IF d.kind = "handler"
        THEN /\ flight' = [flight EXCEPT ![p] =
                    [stage |-> "store", req |-> req, handler |-> d.handler,
                     user |-> d.user, stored |-> BookById(req.bookId) # {},
                     status |-> 0]]
             /\ UNCHANGED last
        ELSE /\ last' = Sent(req, "none", 0, d.status, d.msg, << >>)
             /\ flight' = [flight EXCEPT ![p] =
                    [NoFlight EXCEPT !.stage = "done", !.req = req, !.status = d.status]]
  /\ UNCHANGED <<users, books, nextBookId, now, pending, saved>>

\* the controller's store call, one atomic operation of the store, and the response
Complete(p, ok) ==
  /\ flight[p].stage = "store"
  /\ Invoke(flight[p].handler, flight[p].req, flight[p].user, ok)
  /\ flight' = [flight EXCEPT ![p].stage = "done", ![p].status = last'.status]
  /\ UNCHANGED <<users, now, pending, saved>>

\* updates and deletes by a logged-in client, and a delete with no header
RaceCalls ==
  {Req("DELETE", "/:bookId", id, Bearer(FirstToken), EmptyObj) : id \in 1..MaxBooks}
    \cup {Req("PUT", "/:bookId", id, Bearer(FirstToken), [genre |-> "Classic Fiction"]) :
            id \in 1..MaxBooks}
    \cup {Req("DELETE", "/:bookId", 1, NoHeader, EmptyObj)}

RaceArrive == \E p \in Procs, req \in RaceCalls : Arrive(p, req, TRUE)

RaceComplete == \E p \in Procs, ok \in BOOLEAN : Complete(p, ok)

RaceCreate == ListRequest("POST", "/") /\ Creates(MaxBooks)

\* two book requests in flight at once against the books one client created
NextRace ==
  \/ SignupFirst
  \/ SignupCreate({"req-1"}, {FALSE})
  \/ RaceCreate
  \/ RaceArrive
  \/ RaceComplete

SpecRace == Init /\ [][NextRace]_vars

\* ===================================================================== claims
\* the token a request's Authorization header carries, as requireAuth reads it
TokenOf(req) == At(Split(req.authorization), 1)

\* the step answers a request on route r
Answered(r) == last'.op = RouteName([method |-> r[1], path |-> r[2]])

\* C1: a POST, PUT or DELETE book request with no Authorization header is
\* answered 401 "Authorization token required", reaches no controller and leaves
\* the Book collection as it was.
C1_NoHeaderIsRejected ==
  [][\A r \in ProtectedRoutes : Answered(r) => \A c \in CallsOn[r] :
       (/\ ~c[1].authorization.present
        /\ Handle(bookRouter, c[1], c[2], c[3]))
         => /\ last'.status = 401
            /\ last'.msg = "Authorization token required"
            /\ last'.handler = "none"
            /\ books' = books
            /\ nextBookId' = nextBookId]_vars

\* C1 happens: a DELETE was answered 401 "Authorization token required"
C1_Witness ==
  /\ last.op = "DELETE /api/books/:bookId"
  /\ last.status = 401
  /\ last.msg = "Authorization token required"
  /\ last.handler = "none"

\* C2: a request to a protected route whose bearer token is malformed, signed with
\* another key or expired is answered 401 "Request is not authorized" and reaches
\* no controller.
C2_BadTokenIsRejected ==
  [][\A r \in ProtectedRoutes : Answered(r) => \A c \in CallsOn[r] :
       LET token == TokenOf(c[1])
       IN (/\ ~FalsyHeader(c[1].authorization)
           /\ (token.kind # "jwt" \/ token.key # SECRET \/ now >= token.exp)
           /\ Handle(bookRouter, c[1], c[2], c[3]))
            => /\ last'.status = 401
               /\ last'.msg = "Request is not authorized"
               /\ last'.handler = "none"
               /\ books' = books]_vars

\* C2 happens: a PUT was answered 401 "Request is not authorized"
C2_Witness ==
  /\ last.op = "PUT /api/books/:bookId"
  /\ last.status = 401
  /\ last.msg = "Request is not authorized"
  /\ last.handler = "none"

\* C3: a request to a protected route whose token verifies but whose _id matches
\* no User is answered 401 "Request is not authorized" and reaches no controller.
C3_UnknownUserIsRejected ==
  [][\A r \in ProtectedRoutes : Answered(r) => \A c \in CallsOn[r] :
       LET token == TokenOf(c[1])
       IN (/\ ~FalsyHeader(c[1].authorization)
           /\ token.kind = "jwt" /\ token.key = SECRET /\ now < token.exp
           /\ token._id \notin UserIds
           /\ c[2]
           /\ Handle(bookRouter, c[1], c[2], c[3]))
            => /\ last'.status = 401
               /\ last'.msg = "Request is not authorized"
               /\ last'.handler = "none"]_vars

\* the payload gives every field bookSchema requires of a client
CompletePayload(body) ==
  /\ \A k \in {"title", "author", "isbn", "publisher", "genre", "availability"} : Has(body, k)
  /\ Has(body.availability, "isAvailable")

\* C4 as stated: every Create request that passes the gate for a known user, the
\* store answering, is answered 201 with a book owned by that user, whatever the
\* payload.
C4_EveryCreateIs201 ==
  [][last'.handler = "createBook" => \A c \in Calls("POST", "/") :
       (last'.user # 0 /\ c[3] /\ Handle(bookRouter, c[1], c[2], c[3]))
         => /\ last'.status = 201
            /\ last'.body[1].user_id = last'.user]_vars

\* C4 amended: a Create request that passes the gate is answered 201 exactly when
\* the gate resolved a user, the payload gives every required field and the store
\* answers; the book then stored and returned is owned by the resolved user,
\* whatever user_id the payload gives; every other Create is answered 500 and
\* stores nothing.
C4_CreateOwnerIsCaller ==
  [][last'.handler = "createBook" => \A c \in Calls("POST", "/") :
       Handle(bookRouter, c[1], c[2], c[3])
         => IF last'.user # 0 /\ CompletePayload(c[1].body) /\ c[3]
            THEN /\ last'.status = 201
                 /\ Len(last'.body) = 1
                 /\ last'.body[1].user_id = last'.user
                 /\ last'.user = FindUserId(TokenOf(c[1])._id)
                 /\ last'.body[1] \notin books
                 /\ books' = books \cup {last'.body[1]}
            ELSE /\ last'.status = 500
                 /\ books' = books]_vars

\* C4 happens: a Create was answered 201 with a book owned by the resolved user
C4_Witness ==
  /\ last.handler = "createBook"
  /\ last.status = 201
  /\ last.user \in UserIds
  /\ last.body[1].user_id = last.user
  /\ last.body[1] \in books

\* C5: a token a signup or login response gave, sent as "Bearer <token>" to a
\* protected route less than three days after it was issued, the store answering,
\* passes the gate: the route's controller runs with req.user the user the token
\* was issued for.
C5_IssuedTokenPasses ==
  [][\A r \in ProtectedRoutes : Answered(r) => \A c \in SessionCalls(r[1], r[2]) :
       (/\ saved # NoSaved
        /\ now < saved.iat + TokenDays
        /\ c[2]
        /\ Handle(bookRouter, c[1], c[2], c[3]))
         => /\ last'.handler = r[3]
            /\ last'.user = saved.for
            /\ last'.status # 401]_vars

\* C5 happens: two days after it was issued the kept token reached deleteBook
C5_Witness ==
  /\ saved # NoSaved
  /\ now = saved.iat + TokenDays - 1
  /\ last.handler = "deleteBook"
  /\ last.user = saved.for
  /\ saved.for \in UserIds

\* C6: GET /api/books and GET /api/books/:bookId reach their controller whatever
\* the Authorization header is, and are never answered 401.
C6_GetRoutesArePublic ==
  [][\A r \in PublicRoutes : Answered(r) => \A c \in CallsOn[r] :
       Handle(bookRouter, c[1], c[2], c[3])
         => /\ last'.handler = r[3]
            /\ last'.status # 401]_vars

\* C6 happens: with no user in the store, so no token that names one, both GET
\* controllers have answered
C6_Witness ==
  /\ users = {}
  /\ last.handler = "getBookById"
  /\ last.status \in {200, 400, 404}

\* the signup body gives every field of the signup shape a non-empty value
CompleteSignup(body) == \A k \in SignupFields : ~Falsy(body, k)

\* C7: a signup whose body leaves any of name, email, password, phone_number,
\* gender, date_of_birth or membership_status absent or empty is answered 400
\* "Please add all fields", stores no User, issues no token and goes no further.
C7_MissingFieldIs400 ==
  [][\A p \in Procs : \A c \in SignupCalls :
       (~CompleteSignup(c[1]) /\ signupUser(p, c[1], c[2]))
         => /\ last'.op = "POST /api/users/signup"
            /\ last'.status = 400
            /\ last'.msg = "Please add all fields"
            /\ last'.token = NoToken
            /\ users' = users
            /\ pending' = pending]_vars

\* C7 happens: with a User already stored, a signup was answered 400 "Please add
\* all fields"
C7_Witness ==
  /\ users # {}
  /\ last.op = "POST /api/users/signup"
  /\ last.status = 400
  /\ last.msg = "Please add all fields"
  /\ \A p \in Procs : pending[p] = Idle

\* C8: signups submitted one after the other, bodies complete and the store
\* answering: a signup whose email a stored User has is answered 400 "User already
\* exists" and leaves the users as they were; a signup whose email no User has is
\* answered 201 and stores that email, so the next signup with it is the 400.
C8_DuplicateEmailIs400 ==
  [][/\ \A c \in SignupCalls :
          (CompleteSignup(c[1]) /\ c[2] /\ signupUser("req-1", c[1], c[2]))
            => IF c[1].email \in UserEmails
               THEN /\ last'.op = "POST /api/users/signup"
                    /\ last'.status = 400
                    /\ last'.msg = "User already exists"
                    /\ last'.token = NoToken
                    /\ users' = users
                    /\ pending' = pending
               ELSE /\ pending'["req-1"].stage = "create"
                    /\ pending'["req-1"].email = c[1].email
                    /\ users' = users
     /\ \A salt \in Salts :
          (pending["req-1"].stage = "create" /\ signupUserCreate("req-1", salt, TRUE, FALSE))
            => /\ last'.status = 201
               /\ pending["req-1"].email \notin UserEmails
               /\ pending["req-1"].email \in {u.email : u \in users'}
               /\ Cardinality(users') = Cardinality(users) + 1]_vars

\* C8 happens: one User is stored and a signup was answered 400 "User already
\* exists"
C8_Witness ==
  /\ Cardinality(users) = 1
  /\ last.op = "POST /api/users/signup"
  /\ last.status = 400
  /\ last.msg = "User already exists"

\* no two stored Users have the same email
UniqueEmails == \A u \in users : \A v \in users : u.email = v.email => u = v

\* C9: no two stored Users ever have the same email; a signup that passed the
\* existence check and reaches User.create after another signup stored its email
\* is answered 400 and stores nothing, so of two signups racing on one email at
\* most one is answered 201.
C9_EmailsStayUnique ==
  [][/\ UniqueEmails'
     /\ \A p \in Procs : \A salt \in Salts : \A ok \in BOOLEAN :
          (/\ pending[p].stage = "create"
           /\ pending[p].email \in UserEmails
           /\ signupUserCreate(p, salt, ok, FALSE))
            => /\ last'.status = 400
               /\ last'.token = NoToken
               /\ users' = users]_vars

\* C9 happens: the second of two racing signups was refused by the unique index
C9_Witness ==
  /\ last.op = "POST /api/users/signup"
  /\ last.status = 400
  /\ last.msg = "E11000 duplicate key error"
  /\ Cardinality(users) = 1
  /\ \A p \in Procs : pending[p] = Idle

\* C10: a signup with a complete body and an email no User has, the store
\* answering and no other signup storing that email meanwhile, is answered 201
\* with the email and a token, stores exactly one new User with that email, and
\* the token carries that User's _id.
C10_SignupCreatesOneUser ==
  [][\A p \in Procs :
       /\ \A c \in SignupCalls :
            (/\ CompleteSignup(c[1]) /\ c[2]
             /\ c[1].email \notin UserEmails
             /\ signupUser(p, c[1], c[2]))
              => /\ pending'[p] = [stage |-> "create", email |-> c[1].email,
                                   password |-> c[1].password]
                 /\ users' = users
       /\ \A salt \in Salts :
            (/\ pending[p].stage = "create"
             /\ pending[p].email \notin UserEmails
             /\ signupUserCreate(p, salt, TRUE, FALSE))
              => /\ last'.op = "POST /api/users/signup"
                 /\ last'.status = 201
                 /\ last'.email = pending[p].email
                 /\ last'.token.kind = "jwt"
                 /\ last'.token.key = SECRET
                 /\ \E u \in users' :
                      /\ u \notin users
                      /\ users' = users \cup {u}
                      /\ u.email = pending[p].email
                      /\ \A v \in users : v._id # u._id
                      /\ last'.token._id = u._id]_vars

\* C10 happens: a second User was stored and the 201 carries a token with its _id
C10_Witness ==
  /\ last.op = "POST /api/users/signup"
  /\ last.status = 201
  /\ Cardinality(users) = 2
  /\ \E u \in users : u.email = last.email /\ u._id = last.token._id /\ u._id = 2

\* the texts of the last response: its message, its email and, if its token is
\* no JWT, the token's text
ResponseTexts == {last.msg, last.email, last.token.text}

\* C11: the password of every stored User is a bcrypt digest, never the text
\* submitted at signup; a signup or login response carries an email, a token whose
\* payload is an _id and a message, none of them a password, and no other field.
C11_PasswordIsHashed ==
  /\ \A u \in users : u.password.kind = "bcrypt" /\ u.password.text \in Passwords
  /\ ResponseTexts \cap Passwords = {}
  /\ last.token.kind \in {"undefined", "jwt"}
  /\ last.body = << >>

\* C11 happens: a login compared the submitted password with the stored digest and
\* was answered 200
C11_Witness ==
  /\ last.op = "POST /api/users/login"
  /\ last.status = 200
  /\ \E u \in users : u.email = last.email /\ u.password.kind = "bcrypt"

\* the password is the one the User with this email signed up with
CorrectCredentials(email, password) ==
  \E u \in users : u.email = email /\ u.password.text = password

\* C12: the store answering, a login with the email of a stored User and the
\* password it signed up with is answered 200 with that email and a token for that
\* User; a login with an email no User has and a login with a wrong password get
\* one and the same response, 400 "Invalid credentials".
C12_LoginFailuresAlike ==
  [][last'.op = "POST /api/users/login" => \A c \in LoginCalls :
       (c[3] /\ loginUser(c[1], c[2], TRUE, FALSE))
         => IF CorrectCredentials(c[1], c[2])
            THEN /\ last'.status = 200
                 /\ last'.msg = ""
                 /\ last'.email = c[1]
                 /\ last'.token.kind = "jwt"
                 /\ last'.token.key = SECRET
                 /\ \E u \in users : u.email = c[1] /\ last'.token._id = u._id
            ELSE last' = Resp("POST /api/users/login", 400, "Invalid credentials")]_vars

\* C12 happens: one User is stored, so a login can fail on the email or on the
\* password, and a login was answered 400 "Invalid credentials"
C12_Witness ==
  /\ Cardinality(users) = 1
  /\ last = Resp("POST /api/users/login", 400, "Invalid credentials")

\* the routes that name a book
BookRoutes == {r \in Routes : r[2] = "/:bookId"}

BookIds == {b._id : b \in books}

\* C14: the store answering, get-by-id, update and delete called with an ObjectId
\* that no stored book has are answered 404 "Book not found" and the books are as
\* they were; update creates no record.
C14_UnknownIdIs404 ==
  [][\A r \in BookRoutes : Answered(r) => \A c \in CatalogCalls[r] :
       (/\ c[1].bookId > 0
        /\ c[1].bookId \notin BookIds
        /\ c[3]
        /\ Handle(bookRouter, c[1], c[2], c[3]))
         => /\ last'.handler = r[3]
            /\ last'.status = 404
            /\ last'.msg = "Book not found"
            /\ last'.body = << >>
            /\ books' = books
            /\ nextBookId' = nextBookId]_vars

\* C14 happens: with a book stored, an update under another ObjectId was answered
\* 404
C14_Witness ==
  /\ books # {}
  /\ last.handler = "updateBook"
  /\ last.status = 404
  /\ last.msg = "Book not found"

\* the ObjectIds the store handed out to books that are no longer stored
DeletedIds == (1..(nextBookId - 1)) \ BookIds

\* C15: the store answering, a delete of a stored book is answered 204 with an empty
\* body and removes that book and no other; from then on no book has its _id
\* again, so every later get-by-id of it is answered 404 and no later list has it.
C15_DeleteRemovesTheBook ==
  [][/\ \A r \in BookRoutes : (r[1] = "DELETE" /\ Answered(r)) => \A c \in CatalogCalls[r] :
          (c[1].bookId \in BookIds /\ c[3] /\ Handle(bookRouter, c[1], c[2], c[3]))
            => /\ last'.status = 204
               /\ last'.msg = ""
               /\ last'.body = << >>
               /\ books' = {b \in books : b._id # c[1].bookId}
               /\ Cardinality(books') = Cardinality(books) - 1
     /\ \A id \in DeletedIds : \A b \in books' : b._id # id
     /\ DeletedIds \subseteq (1..(nextBookId' - 1))
     /\ \A r \in BookRoutes : (r[1] = "GET" /\ Answered(r)) => \A c \in CatalogCalls[r] :
          (c[1].bookId \in DeletedIds /\ c[3] /\ Handle(bookRouter, c[1], c[2], c[3]))
            => last'.status = 404
     /\ (last'.handler = "getAllBooks" /\ last' # last)
          => \A i \in 1..Len(last'.body) : last'.body[i]._id \notin DeletedIds]_vars

\* C15 happens: of two books the first was deleted, and a later list has the second
\* only
C15_Witness ==
  /\ nextBookId = 3
  /\ BookIds = {2}
  /\ last.handler = "getAllBooks"
  /\ last.status = 200
  /\ Len(last.body) = 1
  /\ last.body[1] \in books

\* the stored book with this _id
StoredBook(id) == CHOOSE b \in books : b._id = id

\* C16: the store answering, a create answered 201 returns the book it stored; a
\* get-by-id of a stored book is answered 200 with that book as stored; an update
\* answered 200 stores, under the same _id, a book that has every field of the
\* payload with the payload's value, and returns it. So get after create returns
\* the created book, and get after update has the updated fields and the same _id.
C16_RoundTrip ==
  [][\A r \in Routes : Answered(r) => \A c \in CatalogCalls[r] :
       (c[3] /\ Handle(bookRouter, c[1], c[2], c[3]))
         => /\ (r[1] = "POST" /\ last'.status = 201)
                 => /\ last'.body[1] \in books'
                    /\ last'.body[1]._id \notin BookIds
                    /\ \A k \in DOMAIN c[1].body \ {"user_id"} :
                         last'.body[1][k] = c[1].body[k]
            /\ (r[1] = "GET" /\ r[2] = "/:bookId" /\ c[1].bookId \in BookIds)
                 => /\ last'.status = 200
                    /\ last'.body = <<StoredBook(c[1].bookId)>>
            /\ (r[1] = "PUT" /\ c[1].bookId \in BookIds)
                 => /\ last'.status = 200
                    /\ last'.body[1] \in books'
                    /\ last'.body[1]._id = c[1].bookId
                    /\ \A k \in DOMAIN c[1].body : last'.body[1][k] = c[1].body[k]
                    /\ \A b \in books' : b._id = c[1].bookId => b = last'.body[1]
                    /\ {b._id : b \in books'} = BookIds]_vars

\* C16 happens: a book was created and updated, and a get-by-id returns it with the
\* updated genre under its _id
C16_Witness ==
  /\ last.handler = "getBookById"
  /\ last.status = 200
  /\ last.body[1] \in books
  /\ last.body[1]._id = 1
  /\ last.body[1].genre = "Classic Fiction"
  /\ last.body[1].title = Gatsby.title

\* the fields the store manages itself
StoreFields == {"_id", "createdAt"}

C18_ListNewestFirst ==
  [][\A r \in Routes : (r[1] = "GET" /\ r[2] = "/" /\ Answered(r)) => \A c \in ListCalls[r] :
       (c[3] /\ Handle(bookRouter, c[1], c[2], c[3]))
         => LET listed == last'.body
            IN /\ last'.status = 200
               /\ Len(listed) = Cardinality(books)
               /\ {listed[i] : i \in 1..Len(listed)} = books
               /\ \A i \in 1..Len(listed) : \A j \in 1..Len(listed) :
                    listed[i].createdAt > listed[j].createdAt => i < j]_vars

\* C18 happens: three books created at three times are listed newest first
C18_Witness ==
  /\ last.handler = "getAllBooks"
  /\ last.status = 200
  /\ Len(last.body) = 3
  /\ last.body[1].createdAt > last.body[2].createdAt
  /\ last.body[2].createdAt > last.body[3].createdAt
  /\ <<last.body[1]._id, last.body[2]._id, last.body[3]._id>> = <<3, 2, 1>>

\* C19: a store call that throws inside list, get-by-id, create, update or delete is
\* answered 500 and changes no book; a store call that throws inside signup or
\* login is answered 400 and stores no User; signup answers nothing but 201 and
\* 400 and login nothing but 200 and 400; every finished request has a response.
C19_FailuresAreAnswered ==
  [][/\ \A r \in Routes : Answered(r) => \A c \in CallsOn[r] :
          (~c[3] /\ c[1].bookId > 0 /\ Handle(bookRouter, c[1], c[2], c[3]))
            => /\ last'.handler = r[3]
               /\ last'.status = 500
               /\ last'.msg # ""
               /\ books' = books
     /\ last'.op = "POST /api/users/signup"
          => /\ \A c \in SignupCalls :
                  (~c[2] /\ signupUser("req-1", c[1], c[2]))
                    => last'.status = 400 /\ last'.msg # "" /\ users' = users
             /\ \A salt \in Salts :
                  (pending["req-1"].stage = "create"
                     /\ signupUserCreate("req-1", salt, FALSE, FALSE))
                    => last'.status = 400 /\ last'.msg # "" /\ users' = users
             /\ last'.status \in {201, 400}
     /\ last'.op = "POST /api/users/login"
          => /\ \A c \in LoginCalls :
                  (~c[3] /\ loginUser(c[1], c[2], c[3], FALSE))
                    => last'.status = 400 /\ last'.msg # ""
             /\ last'.status \in {200, 400}
     /\ last' # last => last'.status \in {200, 201, 204, 400, 401, 404, 500}]_vars

\* C19 happens: the store threw inside an update, answered 500
C19_Witness ==
  /\ last.handler = "updateBook"
  /\ last.status = 500
  /\ last.msg = "Failed to update book"

\* C20: in the starter each of the five book routes answers 200 with its
\* controller's name as text, for every id, body and header and whatever the
\* database holds, and changes nothing in the database.
C20_StarterPlaceholders ==
  [][\A r \in Routes : \A req \in StarterCalls(r[1], r[2]) :
       HandleStarter(req)
         => /\ last' = Sent(req, r[3], 0, 200, r[3], << >>)
            /\ r[3] \in {"getAllBooks", "createBook", "getBookById", "updateBook", "deleteBook"}
            /\ books' = books
            /\ users' = users
            /\ nextBookId' = nextBookId]_vars

\* C20 happens: against a database with books, a DELETE from a client with a token
\* was answered with the text deleteBook
C20_Witness ==
  /\ books = StarterBooks
  /\ saved # NoSaved
  /\ last.op = "DELETE /api/books/:bookId"
  /\ last.status = 200
  /\ last.msg = "deleteBook"

\* C21: an update or delete of a stored book by any stored User, the store
\* answering, is answered 200 or 204 and does to the book what it does for its
\* owner: who owns the book has no part in the outcome.
C21_NoOwnershipCheck ==
  [][\A r \in BookRoutes : (r[1] \in {"PUT", "DELETE"} /\ Answered(r)) =>
       \A c \in CallsOn[r] :
         LET token == TokenOf(c[1])
         IN (/\ ~FalsyHeader(c[1].authorization)
             /\ token.kind = "jwt" /\ token.key = SECRET /\ now < token.exp
             /\ token._id \in UserIds
             /\ c[1].bookId \in BookIds
             /\ c[2] /\ c[3]
             /\ Handle(bookRouter, c[1], c[2], c[3]))
              => LET old == StoredBook(c[1].bookId)
                 IN /\ last'.handler = r[3]
                    /\ last'.user = token._id
                    /\ r[1] = "PUT"
                         => /\ last'.status = 200
                            /\ last'.body = <<c[1].body @@ old>>
                            /\ books' = (books \ {old}) \cup {c[1].body @@ old}
                    /\ r[1] = "DELETE"
                         => /\ last'.status = 204
                            /\ books' = books \ {old}]_vars

\* C21 happens: the second User updated a book the first User owns, answered 200
C21_Witness ==
  /\ last.handler = "updateBook"
  /\ last.status = 200
  /\ last.user = 2
  /\ last.body[1].user_id = 1
  /\ last.body[1] \in books
  /\ UserIds = {1, 2}

\* two slots hold finished requests for one book that was stored when each of them
\* passed the gate, and the store answered both
RacedOn(p, q) ==
  /\ p # q
  /\ flight[p].stage = "done" /\ flight[q].stage = "done"
  /\ flight[p].stored /\ flight[q].stored
  /\ flight[p].req.bookId = flight[q].req.bookId
  /\ flight[p].status # 500 /\ flight[q].status # 500

\* C22: of two deletes of one stored book in flight together, the store answering,
\* one is answered 204 and the other 404 and the book is gone; of an update and a
\* delete of one stored book in flight together the delete is answered 204, the
\* update 200 or 404, and the book is gone once both have finished.
C22_ConcurrentDeletes ==
  \A p \in Procs : \A q \in Procs :
    RacedOn(p, q) =>
      /\ (flight[p].handler = "deleteBook" /\ flight[q].handler = "deleteBook")
           => /\ {flight[p].status, flight[q].status} = {204, 404}
              /\ flight[p].req.bookId \notin BookIds
      /\ (flight[p].handler = "updateBook" /\ flight[q].handler = "deleteBook")
           => /\ flight[q].status = 204
              /\ flight[p].status \in {200, 404}
              /\ flight[p].req.bookId \notin BookIds

\* C22 happens: a delete and an update of the stored book were in flight together,
\* the delete finished first and the update was answered 404
C22_Witness ==
  /\ RacedOn("req-1", "req-2")
  /\ flight["req-1"].handler = "updateBook"
  /\ flight["req-1"].status = 404
  /\ flight["req-2"].handler = "deleteBook"
  /\ flight["req-2"].status = 204
  /\ books = {}

\* C23: no step changes the owner of a stored book: a book that is stored before and
\* after a create, an update or a delete has the user_id it had, which is the
\* identity of the caller who created it.
C23_OwnerNeverChanges ==
  [][\A old \in books : \A new \in books' :
       new._id = old._id => new.user_id = old.user_id]_vars

\* C24: on every request to a protected route the gate either sends a 401 and no
\* controller runs, or sends nothing and the route's controller runs with the user
\* the gate resolved; never both, never neither; a failing User.findOne is answered
\* 401 without a second attempt; the request gets one response.
C24_GateRespondsOrForwards ==
  [][\A r \in ProtectedRoutes : Answered(r) => \A c \in CallsOn[r] :
       Handle(bookRouter, c[1], c[2], c[3])
         => LET gate == requireAuth(c[1], c[2])
                sends == gate.status # 0
                forwards == gate.kind = "next"
            IN /\ sends # forwards
               /\ sends => /\ gate.status = 401
                           /\ last'.status = 401
                           /\ last'.msg = gate.msg
                           /\ last'.handler = "none"
                           /\ books' = books
               /\ forwards => /\ last'.handler = r[3]
                              /\ last'.user = gate.user
               /\ (~FalsyHeader(c[1].authorization) /\ ~c[2]) => sends
               /\ last'.status \in {200, 201, 204, 400, 401, 404, 500}]_vars

\* C24 happens: the gate answered a POST 401 "Request is not authorized" while a
\* User and a book are stored, and a controller ran for no one
C24_Witness ==
  /\ last.op = "POST /api/books"
  /\ last.status = 401
  /\ last.msg = "Request is not authorized"
  /\ last.handler = "none"
  /\ users # {}
  /\ books # {}
====
